---- MODULE Spec2Model ----
(***************************************************************************)
(* Gantt chart generator (src/app.py): the pipeline                        *)
(*   process_dataframe -> create_gantt_chart -> stats display              *)
(* run once over one uploaded task table.                                  *)
(*                                                                         *)
(* Strings are sequences of one-character strings, dates are day numbers,  *)
(* a data frame is the sequence of its rows (index 1..n after the          *)
(* re-indexing of line 36) and a filtered frame is the ascending sequence  *)
(* of the index values it keeps.                                           *)
(***************************************************************************)
EXTENDS Integers, Sequences, FiniteSets, TLC

VARIABLES pc, error, df, Parsed_Predecessors, indices_to_hide, df_regular,
          df_milestones, Y_Label, sorted_y_labels, y_label_to_pos, shapes,
          milestone_trace, dependency_traces, xaxis_range, stats

vars == <<pc, error, df, Parsed_Predecessors, indices_to_hide, df_regular,
          df_milestones, Y_Label, sorted_y_labels, y_label_to_pos, shapes,
          milestone_trace, dependency_traces, xaxis_range, stats>>

----------------------------------------------------------------------------
(* Bounds of the input tables.                                             *)

MaxRowsCollapse == 4
MaxRowsLayout == 3
MaxStrLen == 5
MaxDate == 2
MaxPredId == 3

----------------------------------------------------------------------------
(* Generic helpers.                                                        *)

Min(S) == CHOOSE x \in S : \A y \in S : x <= y
Max(S) == CHOOSE x \in S : \A y \in S : x >= y
Range(s) == {s[i] : i \in DOMAIN s}

\* A missing cell, as pandas reads it (NaN).
NaN == <<"NaN">>

DigitChars == <<"0", "1", "2", "3", "4", "5", "6", "7", "8", "9">>
DigitValue == [c \in Range(DigitChars) |->
                 (CHOOSE d \in 1..10 : DigitChars[d] = c) - 1]
IsDigit(c) == c \in DOMAIN DigitValue
IsSpace(c) == c = " "

\* The number a string of digits denotes, after the digits read so far (acc).
RECURSIVE DecVal(_, _, _)
DecVal(s, i, acc) ==
    IF i > Len(s) THEN acc
    ELSE DecVal(s, i + 1, 10 * acc + DigitValue[s[i]])

----------------------------------------------------------------------------
(* process_dataframe                                                       *)

\* df['Duration'].str.extract('(\d+)').astype(int): the first maximal run of
\* digits, read as a decimal number.
RECURSIVE FirstDigit(_, _)
FirstDigit(s, i) == IF IsDigit(s[i]) THEN i ELSE FirstDigit(s, i + 1)

RECURSIVE DigitRunEnd(_, _)
DigitRunEnd(s, i) ==
    IF i < Len(s) /\ IsDigit(s[i + 1]) THEN DigitRunEnd(s, i + 1) ELSE i

Duration_days(duration) ==
    LET first == FirstDigit(duration, 1)
    IN  DecVal(SubSeq(duration, first, DigitRunEnd(duration, first)), 1, 0)

\* str.split(','): the pieces between the commas; a string without a comma is
\* one piece, the empty string included.
RECURSIVE Split(_)
Split(s) ==
    IF \E i \in 1..Len(s) : s[i] = ","
    THEN LET i == Min({j \in 1..Len(s) : s[j] = ","})
         IN  <<SubSeq(s, 1, i - 1)>> \o Split(SubSeq(s, i + 1, Len(s)))
    ELSE <<s>>

\* str.strip(): leading and trailing whitespace removed.
RECURSIVE Strip(_)
Strip(s) ==
    IF Len(s) = 0 THEN s
    ELSE IF IsSpace(s[1]) THEN Strip(SubSeq(s, 2, Len(s)))
    ELSE IF IsSpace(s[Len(s)]) THEN Strip(SubSeq(s, 1, Len(s) - 1))
    ELSE s

\* int(t) succeeds: an optional sign, then one or more digits.
IntParses(t) ==
    LET body == IF Len(t) > 0 /\ t[1] \in {"+", "-"} THEN SubSeq(t, 2, Len(t)) ELSE t
    IN  Len(body) > 0 /\ \A i \in 1..Len(body) : IsDigit(body[i])

\* int(t), for a t that parses.
IntOf(t) ==
    IF t[1] = "-" THEN 0 - DecVal(t, 2, 0)
    ELSE IF t[1] = "+" THEN DecVal(t, 2, 0)
    ELSE DecVal(t, 1, 0)

\* A buggy variant: the tokens that parse are kept, the others skipped.
RECURSIVE KeepParsing(_)
KeepParsing(toks) ==
    IF Len(toks) = 0 THEN <<>>
    ELSE (IF IntParses(Strip(toks[1])) THEN <<IntOf(Strip(toks[1]))>> ELSE <<>>)
         \o KeepParsing(SubSeq(toks, 2, Len(toks)))

parse_predecessors_partial(predecessors_str) ==
    IF predecessors_str = NaN THEN <<>>
    ELSE KeepParsing(Split(predecessors_str))

\* parse_predecessors: the ValueError of any one int() empties the whole list.
parse_predecessors(predecessors_str) ==
    IF predecessors_str = NaN THEN <<>>
    ELSE LET toks == Split(predecessors_str)
         IN  IF \A i \in 1..Len(toks) : IntParses(Strip(toks[i]))
             THEN [i \in 1..Len(toks) |-> IntOf(Strip(toks[i]))]
             ELSE <<>>

selected_outline_levels == {1, 2, 3, 4}

\* The index of a frame: 1..len(df).
Index(frame) == [i \in 1..Len(frame) |-> i]

\* Lines 47-48: the split on Duration_days.
SplitMilestones(frame) ==
    LET Keep(i) == Duration_days(frame[i].Duration) = 0
    IN  SelectSeq(Index(frame), Keep)

\* A buggy variant: the hidden rows stay in the frame.
FilterHidden_none(idx, hide) == idx

\* A buggy variant: a milestone is a row that starts and finishes on one day.
SplitRegular_byDates(frame) ==
    LET Keep(i) == frame[i].Finish_Date - frame[i].Start_Date # 0
    IN  SelectSeq(Index(frame), Keep)

SplitRegular(frame) ==
    LET Keep(i) == Duration_days(frame[i].Duration) # 0
    IN  SelectSeq(Index(frame), Keep)

\* Lines 64-65: the outline-level filter.
FilterLevels(frame, idx) ==
    LET Keep(i) == frame[i].Outline_Level \in selected_outline_levels
    IN  SelectSeq(idx, Keep)

\* One iteration of the loop of lines 72-83 on row i.
CollapseStep(st, frame, i) ==
    IF frame[i].Not_appear
    THEN [st EXCEPT !.is_collapsing = TRUE,
                    !.parent_outline_level = frame[i].Outline_Level]
    ELSE IF st.is_collapsing
         THEN IF frame[i].Outline_Level > st.parent_outline_level
              THEN [st EXCEPT !.indices_to_hide = @ \cup {i}]
              ELSE [st EXCEPT !.is_collapsing = FALSE,
                              !.parent_outline_level = -1]
         ELSE st

RECURSIVE CollapseLoop(_, _, _)
CollapseLoop(st, frame, i) ==
    IF i > Len(frame) THEN st
    ELSE CollapseLoop(CollapseStep(st, frame, i), frame, i + 1)

\* A buggy variant: a row at the parent's own level is still hidden.
RECURSIVE CollapseLoopGe(_, _, _)
CollapseLoopGe(st, frame, i) ==
    IF i > Len(frame) THEN st
    ELSE LET nxt == IF ~frame[i].Not_appear /\ st.is_collapsing
                       /\ frame[i].Outline_Level = st.parent_outline_level
                    THEN [st EXCEPT !.indices_to_hide = @ \cup {i}]
                    ELSE CollapseStep(st, frame, i)
         IN  CollapseLoopGe(nxt, frame, i + 1)

CollapseScanGe(frame) ==
    CollapseLoopGe([indices_to_hide |-> {}, is_collapsing |-> FALSE,
                    parent_outline_level |-> -1], frame, 1).indices_to_hide

\* Lines 68-83: the collapse scan over all rows of df.
CollapseScan(frame) ==
    CollapseLoop([indices_to_hide |-> {}, is_collapsing |-> FALSE,
                  parent_outline_level |-> -1], frame, 1).indices_to_hide

\* Lines 85-86: the rows in indices_to_hide leave a frame.
FilterHidden(idx, hide) ==
    LET Keep(i) == i \notin hide
    IN  SelectSeq(idx, Keep)

Repeat(s, n) == [k \in 1..(n * Len(s)) |-> s[((k - 1) % Len(s)) + 1]]

\* Lines 89-94: '  ' * (Outline_Level - 1) + Name.
LabelOf(row) == Repeat(<<" ", " ">>, row.Outline_Level - 1) \o row.Name

\* Lines 47-48, 64-65 and 85: df_regular as process_dataframe returns it.
RegularOf(frame, hide) ==
    FilterHidden(FilterLevels(frame, SplitRegular(frame)), hide)

\* Lines 47-48, 64-65 and 86: df_milestones as process_dataframe returns it.
MilestonesOf(frame, hide) ==
    FilterHidden(FilterLevels(frame, SplitMilestones(frame)), hide)

\* process_dataframe returns its three frames.
ProcessDataframe ==
    /\ pc = "process"
    /\ LET hide == CollapseScan(df)
           reg == RegularOf(df, hide)
           mil == MilestonesOf(df, hide)
       IN  /\ Parsed_Predecessors' =
                  [i \in 1..Len(df) |-> parse_predecessors(df[i].Predecessors)]
           /\ indices_to_hide' = hide
           /\ df_regular' = reg
           /\ df_milestones' = mil
           /\ Y_Label' = [i \in Range(reg) \cup Range(mil) |-> LabelOf(df[i])]
    /\ pc' = "chart"
    /\ UNCHANGED <<error, df, sorted_y_labels, y_label_to_pos, shapes,
                   milestone_trace, dependency_traces, xaxis_range, stats>>

\* Lines 89-94 on a frame without rows: DataFrame.apply(axis=1) then returns a
\* frame, not a column, and its assignment to the one column Y_Label raises
\* ValueError in pandas releases that refuse it; the except clause of line 271
\* reports it and no chart is made.  Releases that accept it go on
\* (ProcessDataframe); both outcomes are kept.
ProcessDataframeRaises ==
    /\ pc = "process"
    /\ LET hide == CollapseScan(df)
       IN  ~(Len(RegularOf(df, hide)) > 0 /\ Len(MilestonesOf(df, hide)) > 0)
    /\ pc' = "error"
    /\ error' = "ValueError"
    /\ UNCHANGED <<df, Parsed_Predecessors, indices_to_hide, df_regular,
                   df_milestones, Y_Label, sorted_y_labels, y_label_to_pos,
                   shapes, milestone_trace, dependency_traces, xaxis_range,
                   stats>>

----------------------------------------------------------------------------
(* create_gantt_chart                                                      *)

\* sort_index(): the rows in ascending index order.
SortIndex(idx) ==
    LET Lt(a, b) == a < b
    IN  SortSeq(idx, Lt)

\* drop_duplicates().tolist(): each value once, at its first occurrence.
RECURSIVE DropDuplicates(_)
DropDuplicates(s) ==
    IF Len(s) = 0 THEN <<>>
    ELSE LET front == DropDuplicates(SubSeq(s, 1, Len(s) - 1))
         IN  IF s[Len(s)] \in Range(front) THEN front
             ELSE Append(front, s[Len(s)])

\* A buggy variant: the concatenation is not sorted back into index order.
SortedYLabels_unsorted(reg, mil, labels) ==
    LET combined == reg \o mil
    IN  DropDuplicates([k \in 1..Len(combined) |-> labels[combined[k]]])

\* A buggy variant: the labels of the regular rows only.
SortedYLabels_regular(reg, mil, labels) ==
    DropDuplicates([k \in 1..Len(reg) |-> labels[reg[k]]])

\* Lines 100-101: the labels of the visible rows, in index order, deduplicated.
SortedYLabels(reg, mil, labels) ==
    LET combined == SortIndex(reg \o mil)
    IN  DropDuplicates([k \in 1..Len(combined) |-> labels[combined[k]]])

\* Line 102: {label: i for i, label in enumerate(sorted_y_labels)}.
YLabelToPos(ylabels) ==
    [label \in Range(ylabels) |->
        (CHOOSE k \in 1..Len(ylabels) : ylabels[k] = label) - 1]

\* Lines 109-115: the colour of a bar.
BarColor(level) ==
    IF level = 1 THEN "black"
    ELSE IF level = 2 THEN "dimgray"
    ELSE IF level = 3 THEN "darkgray"
    ELSE "steelblue"

\* Lines 108-131: one rectangle per row of df_regular, centred at y_pos.
Shapes(frame, reg, labels, pos) ==
    [k \in 1..Len(reg) |->
        [row       |-> reg[k],
         x0        |-> frame[reg[k]].Start_Date,
         x1        |-> frame[reg[k]].Finish_Date,
         y_pos     |-> pos[labels[reg[k]]],
         fillcolor |-> BarColor(frame[reg[k]].Outline_Level)]]

\* Lines 144-164: the diamonds of the one milestone trace (no trace without
\* milestones), at (Finish_Date, position).
MilestoneTrace(frame, mil, labels, pos) ==
    [k \in 1..Len(mil) |->
        [row |-> mil[k],
         x   |-> frame[mil[k]].Finish_Date,
         y   |-> pos[labels[mil[k]]]]]

\* A buggy variant: only a regular row is found as a predecessor.
PredecessorFound_regular(pred_idx, reg, mil) ==
    pred_idx \in Range(reg)

\* Lines 173-179: predecessor_data is not None.
PredecessorFound(pred_idx, reg, mil) ==
    \/ pred_idx \in Range(reg)
    \/ pred_idx \in Range(mil)

\* Lines 172-192: the connectors of the dependent row `index`, one per
\* predecessor that is found, in list order.
RECURSIVE DependencyLines(_, _, _, _, _, _, _)
DependencyLines(frame, index, preds, reg, mil, labels, pos) ==
    IF Len(preds) = 0 THEN <<>>
    ELSE LET pred_idx == preds[1]
             rest == DependencyLines(frame, index, SubSeq(preds, 2, Len(preds)),
                                     reg, mil, labels, pos)
         IN  IF PredecessorFound(pred_idx, reg, mil)
             THEN <<[from |-> pred_idx,
                     to   |-> index,
                     x0   |-> frame[pred_idx].Finish_Date,
                     y0   |-> pos[labels[pred_idx]],
                     x1   |-> frame[index].Start_Date,
                     y1   |-> pos[labels[index]]]>> \o rest
             ELSE rest

\* Lines 167-192: the loop over df_regular.
RECURSIVE DependencyTraces(_, _, _, _, _, _, _)
DependencyTraces(frame, parsed, todo, reg, mil, labels, pos) ==
    IF Len(todo) = 0 THEN <<>>
    ELSE DependencyLines(frame, todo[1], parsed[todo[1]], reg, mil, labels, pos)
         \o DependencyTraces(frame, parsed, SubSeq(todo, 2, Len(todo)),
                             reg, mil, labels, pos)

\* Every y_label_to_pos[...] of lines 117, 145, 169 and 181 finds its key.
LookupsFound(parsed, reg, mil, labels, pos) ==
    /\ \A k \in 1..Len(reg) : labels[reg[k]] \in DOMAIN pos
    /\ \A k \in 1..Len(mil) : labels[mil[k]] \in DOMAIN pos
    /\ \A k \in 1..Len(reg) : \A j \in 1..Len(parsed[reg[k]]) :
          PredecessorFound(parsed[reg[k]][j], reg, mil)
             => /\ parsed[reg[k]][j] \in DOMAIN labels
                /\ labels[parsed[reg[k]][j]] \in DOMAIN pos

\* A buggy variant: the paddings of the two ends are swapped.
XAxisRange_swapped(frame) ==
    <<Min({frame[i].Start_Date : i \in 1..Len(frame)}) - 30,
      Max({frame[i].Finish_Date : i \in 1..Len(frame)}) + 5>>

\* Lines 194-195 and 208: min and max over df, padded by 5 and 30 days.
XAxisRange(frame) ==
    LET min_date == Min({frame[i].Start_Date : i \in 1..Len(frame)})
        max_date == Max({frame[i].Finish_Date : i \in 1..Len(frame)})
    IN  <<min_date - 5, max_date + 30>>

\* create_gantt_chart; a failed dictionary lookup raises KeyError, which the
\* except clause of line 271 reports instead of a chart.
CreateGanttChart ==
    /\ pc = "chart"
    /\ LET ylabels == SortedYLabels(df_regular, df_milestones, Y_Label)
           pos == YLabelToPos(ylabels)
       IN  IF LookupsFound(Parsed_Predecessors, df_regular, df_milestones,
                           Y_Label, pos)
           THEN /\ sorted_y_labels' = ylabels
                /\ y_label_to_pos' = pos
                /\ shapes' = Shapes(df, df_regular, Y_Label, pos)
                /\ milestone_trace' =
                       MilestoneTrace(df, df_milestones, Y_Label, pos)
                /\ dependency_traces' =
                       DependencyTraces(df, Parsed_Predecessors, df_regular,
                                        df_regular, df_milestones, Y_Label, pos)
                /\ xaxis_range' = XAxisRange(df)
                /\ pc' = "stats"
                /\ error' = error
           ELSE /\ pc' = "error"
                /\ error' = "KeyError"
                /\ UNCHANGED <<sorted_y_labels, y_label_to_pos, shapes,
                               milestone_trace, dependency_traces, xaxis_range>>
    /\ UNCHANGED <<df, Parsed_Predecessors, indices_to_hide, df_regular,
                   df_milestones, Y_Label, stats>>

----------------------------------------------------------------------------
(* Main logic: the three metrics.                                          *)

\* A buggy variant: the project duration spans the charted rows only.
Stats_charted(frame, reg, mil) ==
    LET seen == Range(reg) \cup Range(mil)
    IN  [regular    |-> Len(reg),
         milestones |-> Len(mil),
         duration   |-> IF seen = {} THEN 0
                        ELSE Max({frame[i].Finish_Date : i \in seen})
                             - Min({frame[i].Start_Date : i \in seen})]

\* Lines 252-257.
Stats(frame, reg, mil) ==
    [regular    |-> Len(reg),
     milestones |-> Len(mil),
     duration   |-> Max({frame[i].Finish_Date : i \in 1..Len(frame)})
                    - Min({frame[i].Start_Date : i \in 1..Len(frame)})]

DisplayStats ==
    /\ pc = "stats"
    /\ stats' = Stats(df, df_regular, df_milestones)
    /\ pc' = "done"
    /\ UNCHANGED <<error, df, Parsed_Predecessors, indices_to_hide, df_regular,
                   df_milestones, Y_Label, sorted_y_labels, y_label_to_pos,
                   shapes, milestone_trace, dependency_traces, xaxis_range>>

Next ==
    \/ ProcessDataframe
    \/ ProcessDataframeRaises
    \/ CreateGanttChart
    \/ DisplayStats

----------------------------------------------------------------------------
(* The uploaded tables.  A row holds the seven required columns (line 232). *)

Row(name, start, finish, duration, level, predecessors, not_appear) ==
    [Name          |-> name,
     Start_Date    |-> start,
     Finish_Date   |-> finish,
     Duration      |-> duration,
     Outline_Level |-> level,
     Predecessors  |-> predecessors,
     Not_appear    |-> not_appear]

ZeroDays == <<"0", " ", "d", "a", "y", "s">>
TenDays == <<"1", "0", " ", "d", "a", "y", "s">>
Durations == {ZeroDays, TenDays}

\* A name of its own for row i.
TaskName(i) == <<"T", DigitChars[i + 1]>>

\* Tables for the collapse scan: every mix of levels (5 is outside the
\* selected levels) and Not appear marks; the even rows are milestones.
CollapseLevels == {1, 2, 3, 5}
CollapseFrame(n, lv, na) ==
    [i \in 1..n |->
        Row(TaskName(i), i, i + 1, IF i % 2 = 0 THEN ZeroDays ELSE TenDays,
            lv[i], NaN, na[i])]

\* The shape of a row: its kind, level and Not appear mark.
Shape(duration, level, not_appear) ==
    [Duration |-> duration, Outline_Level |-> level, Not_appear |-> not_appear]

\* Table shapes for the date range and the dependency lines: all rows charted;
\* a regular row and a milestone hidden by a collapse; a regular row and a
\* milestone outside the selected levels; marks inside a collapsed span; a
\* table without a milestone.
TableShapes ==
    {<<Shape(TenDays, 1, FALSE), Shape(ZeroDays, 1, FALSE)>>,
     <<Shape(TenDays, 1, TRUE), Shape(TenDays, 2, FALSE), Shape(ZeroDays, 1, FALSE)>>,
     <<Shape(ZeroDays, 1, TRUE), Shape(ZeroDays, 2, FALSE), Shape(TenDays, 1, FALSE)>>,
     <<Shape(TenDays, 1, FALSE), Shape(TenDays, 5, FALSE), Shape(ZeroDays, 2, FALSE)>>,
     <<Shape(TenDays, 2, FALSE), Shape(ZeroDays, 5, FALSE), Shape(ZeroDays, 1, FALSE)>>,
     <<Shape(TenDays, 1, TRUE), Shape(TenDays, 2, TRUE), Shape(ZeroDays, 2, FALSE)>>,
     <<Shape(ZeroDays, 1, FALSE), Shape(TenDays, 1, FALSE), Shape(TenDays, 1, FALSE)>>,
     <<Shape(TenDays, 1, FALSE), Shape(TenDays, 2, FALSE), Shape(TenDays, 3, FALSE)>>}

\* Tables for the date range: every start and finish with start <= finish.
DateFrame(sh, st, fi) ==
    [i \in 1..Len(sh) |->
        Row(TaskName(i), st[i], fi[i], sh[i].Duration, sh[i].Outline_Level,
            NaN, sh[i].Not_appear)]

\* Tables for the dependency lines: each row has no predecessors, one id or
\* two ids (written "p, q"), self-references, repeated ids and ids past the
\* last row included.
PredecessorStrings ==
    {NaN}
    \cup {<<DigitChars[p + 1]>> : p \in 1..MaxPredId}
    \cup {<<DigitChars[p + 1], ",", " ", DigitChars[q + 1]>> :
             p \in 1..MaxPredId, q \in 1..MaxPredId}
DepFrame(sh, pr) ==
    [i \in 1..Len(sh) |->
        Row(TaskName(i), 2 * i, 2 * i + 1, sh[i].Duration,
            sh[i].Outline_Level, pr[i], sh[i].Not_appear)]

\* Tables for the row layout: level 1 with the name "  A" and level 2 with the
\* name "A" have the same label.
LayoutNames == {<<"A">>, <<" ", " ", "A">>}
LayoutLevels == {1, 2}
LayoutFrame(n, nm, du, lv, na) ==
    [i \in 1..n |->
        Row(nm[i], i, i + 1, du[i], lv[i], <<"1", ",", "2">>, na[i])]

\* Tables for parse_predecessors: row 1 holds any string over the alphabet, or
\* no value.
Alphabet == {"1", "3", ",", " ", "a"}
ParseKinds == {<<TenDays>>, <<TenDays, ZeroDays>>, <<ZeroDays, TenDays>>}
ParseFrame(k, p) ==
    [i \in 1..Len(k) |->
        Row(TaskName(i), i, i + 1, k[i], 1, IF i = 1 THEN p ELSE NaN, FALSE)]

\* Nothing is computed before process_dataframe runs.
Blank ==
    /\ pc = "process"
    /\ error = "none"
    /\ Parsed_Predecessors = <<>>
    /\ indices_to_hide = {}
    /\ df_regular = <<>>
    /\ df_milestones = <<>>
    /\ Y_Label = <<>>
    /\ sorted_y_labels = <<>>
    /\ y_label_to_pos = <<>>
    /\ shapes = <<>>
    /\ milestone_trace = <<>>
    /\ dependency_traces = <<>>
    /\ xaxis_range = <<>>
    /\ stats = <<>>

Init ==
    /\ \E sh \in TableShapes :
         \E pr \in [1..Len(sh) -> PredecessorStrings] : df = DepFrame(sh, pr)
    /\ Blank

InitCollapse ==
    /\ \E n \in 1..MaxRowsCollapse :
         \E lv \in [1..n -> CollapseLevels], na \in [1..n -> BOOLEAN] :
            df = CollapseFrame(n, lv, na)
    /\ Blank

InitDates ==
    /\ \E sh \in TableShapes :
         \E st \in [1..Len(sh) -> 0..MaxDate], fi \in [1..Len(sh) -> 0..MaxDate] :
            /\ \A i \in 1..Len(sh) : st[i] <= fi[i]
            /\ df = DateFrame(sh, st, fi)
    /\ Blank

InitLayout ==
    /\ \E n \in 1..MaxRowsLayout :
         \E nm \in [1..n -> LayoutNames], du \in [1..n -> Durations],
            lv \in [1..n -> LayoutLevels], na \in [1..n -> BOOLEAN] :
            df = LayoutFrame(n, nm, du, lv, na)
    /\ Blank

InitParse ==
    /\ \E k \in ParseKinds :
         \/ \E n \in 0..MaxStrLen : \E p \in [1..n -> Alphabet] :
               df = ParseFrame(k, p)
         \/ df = ParseFrame(k, NaN)
    /\ Blank

Spec == Init /\ [][Next]_vars
SpecCollapse == InitCollapse /\ [][Next]_vars
SpecDates == InitDates /\ [][Next]_vars
SpecLayout == InitLayout /\ [][Next]_vars
SpecParse == InitParse /\ [][Next]_vars

----------------------------------------------------------------------------
(* Vocabulary of the properties.                                           *)

Rows == 1..Len(df)
Processed == pc \in {"chart", "stats", "done"}
ChartBuilt == pc \in {"stats", "done"}

\* A visible task: its level is selected and the collapse scan did not hide it.
Visible(i) ==
    /\ i \in Rows
    /\ df[i].Outline_Level \in 1..4
    /\ i \notin indices_to_hide
VisibleRows == {i \in Rows : Visible(i)}
IsMilestoneRow(i) == Duration_days(df[i].Duration) = 0

BarsOf(i) == {k \in DOMAIN shapes : shapes[k].row = i}
MarkersOf(i) == {k \in DOMAIN milestone_trace : milestone_trace[k].row = i}
HasGeometry(i) == BarsOf(i) # {} \/ MarkersOf(i) # {}

\* The vertical position at which row i is drawn.
PositionOf(i) ==
    IF BarsOf(i) # {} THEN shapes[CHOOSE k \in BarsOf(i) : TRUE].y_pos
    ELSE milestone_trace[CHOOSE k \in MarkersOf(i) : TRUE].y

\* The label of row i: two spaces per level below the root, then the name.
IndentedName(i) ==
    LET indent == 2 * (df[i].Outline_Level - 1)
    IN  [k \in 1..(indent + Len(df[i].Name)) |->
            IF k <= indent THEN " " ELSE df[i].Name[k - indent]]

\* r lies in the collapse span of m: m is marked and every row after m up to r
\* is deeper than m.
InCollapseSpan(m, r) ==
    /\ df[m].Not_appear
    /\ m < r
    /\ \A j \in (m + 1)..r : df[j].Outline_Level > df[m].Outline_Level

----------------------------------------------------------------------------
(* C1: every row inside the collapse span of a marked row (after it, before *)
(* the first later row at its level or shallower) gets no bar and no marker.*)
(* The scan does not hide a marked row and restarts at its level, so this   *)
(* fails for a marked row inside a span and for what follows it.            *)
C1_SpanRowsGetNoGeometry ==
    ChartBuilt =>
        \A m \in Rows : \A r \in Rows : InCollapseSpan(m, r) => ~HasGeometry(r)

----------------------------------------------------------------------------
(* The two-state collapse machine of the specification.                    *)

\* The machine's state after row i.
RECURSIVE MachineAfter(_)
MachineAfter(i) ==
    IF i = 0 THEN [collapsing |-> FALSE, parentLevel |-> 0]
    ELSE LET before == MachineAfter(i - 1)
         IN  IF df[i].Not_appear
             THEN [collapsing |-> TRUE, parentLevel |-> df[i].Outline_Level]
             ELSE IF before.collapsing
                     /\ df[i].Outline_Level > before.parentLevel
                  THEN before
                  ELSE [collapsing |-> FALSE, parentLevel |-> 0]

MachineHides(i) ==
    /\ ~df[i].Not_appear
    /\ MachineAfter(i - 1).collapsing
    /\ df[i].Outline_Level > MachineAfter(i - 1).parentLevel

ExampleLevels == <<1, 2, 3, 2, 1>>
IsExample ==
    /\ Len(df) \in 4..5
    /\ \A i \in Rows : df[i].Outline_Level = ExampleLevels[i]
    /\ \A i \in Rows : df[i].Not_appear <=> i = 2

(* C4: the rows the collapse scan hides are those the two-state machine of  *)
(* the specification hides, run over all rows in order; with levels         *)
(* 1,2,3,2(,1) and row 2 marked, exactly row 3 is hidden.                   *)
C4_ScanIsTheMachine ==
    Processed =>
        /\ indices_to_hide = {i \in Rows : MachineHides(i)}
        /\ IsExample => indices_to_hide = {3}

C4_Witness ==
    /\ pc = "done"
    /\ IsExample
    /\ indices_to_hide = {3}
    /\ HasGeometry(4)
    /\ ~HasGeometry(3)

----------------------------------------------------------------------------
(* C2: the x-axis range is [min(start) - 5, max(finish) + 30] over the      *)
(* visible tasks only; hidden and level-excluded rows do not influence it.  *)
(* Stated for the charts that show a bar and a milestone.                   *)
C2_RangeOverVisibleRows ==
    (ChartBuilt /\ shapes # <<>> /\ milestone_trace # <<>>) =>
        xaxis_range = <<Min({df[i].Start_Date : i \in VisibleRows}) - 5,
                        Max({df[i].Finish_Date : i \in VisibleRows}) + 30>>

(* C2, as the code has it: the x-axis range is [min(start) - 5,             *)
(* max(finish) + 30] over all rows of the table, the hidden and the         *)
(* level-excluded rows included.                                            *)
C2_RangeOverAllRows ==
    ChartBuilt =>
        /\ \A i \in Rows : /\ xaxis_range[1] <= df[i].Start_Date - 5
                           /\ xaxis_range[2] >= df[i].Finish_Date + 30
        /\ \E i \in Rows : xaxis_range[1] = df[i].Start_Date - 5
        /\ \E i \in Rows : xaxis_range[2] = df[i].Finish_Date + 30

\* A chart whose range is set by rows that are not visible, at both ends.
C2_Witness ==
    /\ pc = "done"
    /\ shapes # <<>>
    /\ milestone_trace # <<>>
    /\ xaxis_range[1] < Min({df[i].Start_Date : i \in VisibleRows}) - 5
    /\ xaxis_range[2] > Max({df[i].Finish_Date : i \in VisibleRows}) + 30

----------------------------------------------------------------------------
(* C7: the stats are the number of visible Regular rows, the number of      *)
(* visible Milestone rows, and max(finish) - min(start) over all rows,      *)
(* hidden and level-excluded rows included.                                 *)
C7_Stats ==
    pc = "done" =>
        /\ stats.regular =
              Cardinality({i \in VisibleRows : ~IsMilestoneRow(i)})
        /\ stats.milestones =
              Cardinality({i \in VisibleRows : IsMilestoneRow(i)})
        /\ \A i \in Rows : \A j \in Rows :
              stats.duration >= df[i].Finish_Date - df[j].Start_Date
        /\ \E i \in Rows : \E j \in Rows :
              stats.duration = df[i].Finish_Date - df[j].Start_Date

\* Stats of a table in which rows that are not visible widen the span.
C7_Witness ==
    /\ pc = "done"
    /\ stats.regular = 1
    /\ stats.milestones = 1
    /\ \E i \in Rows : i \in indices_to_hide
    /\ stats.duration > Max({df[i].Finish_Date : i \in VisibleRows})
                        - Min({df[i].Start_Date : i \in VisibleRows})

----------------------------------------------------------------------------
(* C3: both endpoints of every dependency connector are visible tasks; no   *)
(* connector refers to a hidden, level-excluded or nonexistent row id.      *)
C3_ConnectorEndpointsVisible ==
    ChartBuilt =>
        \A k \in DOMAIN dependency_traces :
            /\ Visible(dependency_traces[k].from)
            /\ Visible(dependency_traces[k].to)

\* A chart with a connector, made from a table in which a charted Regular
\* row lists itself and a hidden row.
C3_Witness ==
    /\ pc = "done"
    /\ dependency_traces # <<>>
    /\ \E t \in VisibleRows :
          /\ ~IsMilestoneRow(t)
          /\ t \in Range(Parsed_Predecessors[t])
          /\ \E p \in Range(Parsed_Predecessors[t]) : p \in indices_to_hide

----------------------------------------------------------------------------
(* Connectors, counted per predecessor and dependent.                      *)
Occurrences(p, list) == Cardinality({j \in DOMAIN list : list[j] = p})
ConnectorsBetween(p, t) ==
    {k \in DOMAIN dependency_traces :
        dependency_traces[k].from = p /\ dependency_traces[k].to = t}

(* C9: there is exactly one connector per pair (t, occurrence of p in t's   *)
(* parsed predecessor list) with t a visible Regular row and p the id of a  *)
(* visible row, drawn from (p.finish, position(p)) to (t.start,             *)
(* position(t)); an id that is not visible is dropped alone, and a          *)
(* Milestone row is never the dependent.                                    *)
C9_ConnectorsAreTheVisibleEdges ==
    ChartBuilt =>
        /\ \A k \in DOMAIN dependency_traces :
              LET c == dependency_traces[k]
              IN  /\ c.to \in Rows
                  /\ c.from \in Rows
                  /\ c.x0 = df[c.from].Finish_Date
                  /\ c.y0 = PositionOf(c.from)
                  /\ c.x1 = df[c.to].Start_Date
                  /\ c.y1 = PositionOf(c.to)
        /\ \A t \in Rows : \A p \in 1..(MaxPredId + 1) :
              Cardinality(ConnectorsBetween(p, t)) =
                 IF Visible(t) /\ ~IsMilestoneRow(t) /\ Visible(p)
                 THEN Occurrences(p, Parsed_Predecessors[t])
                 ELSE 0

\* A chart in which one row keeps the connector to a milestone while the
\* other id of its list is dropped, and a Milestone row with a visible
\* predecessor gives none.
C9_Witness ==
    /\ pc = "done"
    /\ \E t \in Rows : \E p \in Rows : \E q \in Range(Parsed_Predecessors[t]) :
          /\ IsMilestoneRow(p)
          /\ ConnectorsBetween(p, t) # {}
          /\ ~Visible(q)
    /\ \E m \in VisibleRows : \E p \in VisibleRows :
          /\ IsMilestoneRow(m)
          /\ p \in Range(Parsed_Predecessors[m])

----------------------------------------------------------------------------
(* C6: a visible row with durationDays = 0 yields exactly one milestone     *)
(* marker and no bar, a visible row with durationDays # 0 exactly one bar   *)
(* and no marker, and a row that is not visible yields neither.             *)
C6_GeometryByKind ==
    ChartBuilt =>
        \A i \in Rows :
            /\ Cardinality(BarsOf(i)) =
                  IF Visible(i) /\ ~IsMilestoneRow(i) THEN 1 ELSE 0
            /\ Cardinality(MarkersOf(i)) =
                  IF Visible(i) /\ IsMilestoneRow(i) THEN 1 ELSE 0

\* A chart with a bar, a marker, a row left out for its level and a row left
\* out by a collapse.
C6_Witness ==
    /\ pc = "done"
    /\ shapes # <<>>
    /\ milestone_trace # <<>>
    /\ \E i \in Rows : df[i].Outline_Level \notin 1..4
    /\ \E i \in Rows : df[i].Outline_Level \in 1..4 /\ i \in indices_to_hide

----------------------------------------------------------------------------
(* Row positions and labels.                                               *)
\* Rows i and j of the visible rows vis, with their labels and positions.
FirstAppearance(vis, label, i) == Min({j \in vis : label[j] = label[i]})
PositionsFollowLabels(vis, label, pos) ==
    /\ vis # {} => pos[Min(vis)] = 0
    /\ \A i \in vis : \A j \in vis :
          /\ (pos[i] = pos[j]) <=> (label[i] = label[j])
          /\ FirstAppearance(vis, label, i) < FirstAppearance(vis, label, j)
                => pos[i] < pos[j]

(* C5: positions go to the distinct labels in order of first appearance     *)
(* among the visible rows taken in id order: the first visible row is at    *)
(* position 0, two visible rows share a position exactly when their labels  *)
(* are identical, and a label that first appears earlier is higher up.      *)
C5_PositionsByFirstAppearance ==
    ChartBuilt =>
        \A vis \in {VisibleRows} :
            \A label \in {[i \in vis |-> IndentedName(i)]} :
                \A pos \in {[i \in vis |-> PositionOf(i)]} :
                    PositionsFollowLabels(vis, label, pos)

\* A chart in which a milestone comes first, a bar and a marker of different
\* rows share the label "  A" and one position, and a third label follows.
C5_Witness ==
    /\ pc = "done"
    /\ IsMilestoneRow(Min(VisibleRows))
    /\ \E i \in VisibleRows : \E j \in VisibleRows :
          /\ i < j
          /\ ~IsMilestoneRow(i)
          /\ IsMilestoneRow(j)
          /\ df[i].Outline_Level # df[j].Outline_Level
          /\ PositionOf(i) = PositionOf(j)
    /\ \E i \in VisibleRows : PositionOf(i) = 1

----------------------------------------------------------------------------
(* C10: the label-to-position map is total and dense: the positions in use  *)
(* are 0..k-1 for k distinct visible labels (one tick each), and every      *)
(* lookup made for a bar, a marker or a connector endpoint finds its label. *)
C10_PositionsDenseAndFound ==
    /\ error # "KeyError"
    /\ ChartBuilt =>
          LET vis == VisibleRows
              k   == Cardinality({IndentedName(i) : i \in vis})
          IN  /\ Len(sorted_y_labels) = k
              /\ {PositionOf(i) : i \in vis} = 0..(k - 1)
              /\ \A c \in DOMAIN dependency_traces :
                    /\ dependency_traces[c].y0 \in 0..(k - 1)
                    /\ dependency_traces[c].y1 \in 0..(k - 1)

\* A chart with fewer positions than visible rows and connectors at both a
\* bar and a marker.
C10_Witness ==
    /\ pc = "done"
    /\ Len(sorted_y_labels) = 2
    /\ Cardinality(VisibleRows) = 3
    /\ \E c \in DOMAIN dependency_traces :
          IsMilestoneRow(dependency_traces[c].from)
    /\ \E c \in DOMAIN dependency_traces :
          ~IsMilestoneRow(dependency_traces[c].from)

----------------------------------------------------------------------------
(* The Predecessors cell of row 1, read character by character.            *)

\* The text of row 1's cell and the places of its commas.
Cell == df[1].Predecessors
Commas == {i \in DOMAIN Cell : Cell[i] = ","}
TokenCount == Cardinality(Commas) + 1
NthComma(n) == CHOOSE i \in Commas : Cardinality({j \in Commas : j < i}) = n - 1
TokenFrom(n) == IF n = 1 THEN 1 ELSE NthComma(n - 1) + 1
TokenTo(n) == IF n = TokenCount THEN Len(Cell) ELSE NthComma(n) - 1

\* Token n is the digits at a..b with nothing but spaces around them.
IsNumeral(n, a, b) ==
    /\ TokenFrom(n) <= a /\ a <= b /\ b <= TokenTo(n)
    /\ \A i \in TokenFrom(n)..TokenTo(n) :
          IF i \in a..b THEN IsDigit(Cell[i]) ELSE Cell[i] = " "
RECURSIVE Power10(_)
Power10(e) == IF e = 0 THEN 1 ELSE 10 * Power10(e - 1)
RECURSIVE NumeralValue(_, _)
NumeralValue(a, b) ==
    IF a > b THEN 0
    ELSE DigitValue[Cell[a]] * Power10(b - a) + NumeralValue(a + 1, b)
IsIntegerToken(n) ==
    \E a \in DOMAIN Cell : \E b \in DOMAIN Cell : IsNumeral(n, a, b)
TokenValue(n) ==
    LET ab == CHOOSE ab \in (DOMAIN Cell) \X (DOMAIN Cell) :
                 IsNumeral(n, ab[1], ab[2])
    IN  NumeralValue(ab[1], ab[2])

(* C8: parse_predecessors is all-or-nothing and raises nothing: when every  *)
(* comma-separated token, trimmed, is an integer the result is those        *)
(* integers in order; when any token is not (or the cell is empty or        *)
(* missing) the list is empty, and the row still gets its bar or marker.    *)
C8_ParseAllOrNothing ==
    /\ Processed =>
          IF Cell # NaN /\ \A n \in 1..TokenCount : IsIntegerToken(n)
          THEN Parsed_Predecessors[1] = [n \in 1..TokenCount |-> TokenValue(n)]
          ELSE Parsed_Predecessors[1] = <<>>
    /\ pc = "done" => HasGeometry(1)
    /\ pc = "error" => (error = "ValueError" /\ Len(df) = 1)

\* "1,a,3" parses to the empty list, and the row has its bar.
C8_Witness ==
    /\ pc = "done"
    /\ Cell = <<"1", ",", "a", ",", "3">>
    /\ Parsed_Predecessors[1] = <<>>
    /\ BarsOf(1) # {}

====
